---- MODULE Spec2Model ----
(***************************************************************************)
(* Model of src/src/utils/deep_research.py: the URL normalizer, the        *)
(* rate-limited invoker and the deep_research iteration loop.              *)
(*                                                                         *)
(* Strings are sequences of one-character strings, so that parsing and     *)
(* rebuilding a URL is computed and not assumed.  A rational wait time is  *)
(* a record [num, den] (num/den seconds).                                  *)
(***************************************************************************)
EXTENDS Integers, Sequences, FiniteSets, TLC

\* ------------------------------------------------------------------ bounds
MaxSearchIterations == 2   \* value of kwargs["max_search_iterations"] in the modelled run
MaxHistoryQuery == 2       \* cap on len(history_query): queries the planner may issue in a run
MaxHistoryInfos == 2       \* cap on len(history_infos): facts the recorder may return in a run
MaxRetriesBound == 5       \* largest max_retries the retry harness tries
MaxTailLen == 3            \* longest tail appended to a head in the normalize_url inputs

\* ------------------------------------------------------- program constants
DefaultMaxRetries == 5
DefaultInitialWait == 1
DefaultTargetWait == 59
JitterPercent == 10

\* ------------------------------------------------------------ strings
Letters == {"h", "a", "p", "w", "t", "u", "n", "k", "o"}   \* scheme_chars among the alphabet

\* str.find(c): first index of c in s (1-based), 0 when absent
RECURSIVE FindFrom(_, _, _)
FindFrom(s, C, i) ==
    IF i > Len(s) THEN 0
    ELSE IF s[i] \in C THEN i
    ELSE FindFrom(s, C, i + 1)

Find(s, c) == FindFrom(s, {c}, 1)

Drop(s, n) == SubSeq(s, n + 1, Len(s))
Take(s, n) == SubSeq(s, 1, n)

\* urllib.parse.urlparse as used by normalize_url: scheme, netloc, path
\* (query and fragment are split off and not kept).
SplitScheme(url) ==
    LET i == Find(url, ":")
    IN  IF i > 1 /\ \A k \in 1..(i - 1) : url[k] \in Letters
        THEN [scheme |-> Take(url, i - 1), rest |-> Drop(url, i)]
        ELSE [scheme |-> <<>>, rest |-> url]

SplitNetloc(url) ==
    IF Len(url) >= 2 /\ url[1] = "/" /\ url[2] = "/"
    THEN LET d == FindFrom(url, {"/", "?", "#"}, 3)
             delim == IF d = 0 THEN Len(url) + 1 ELSE d
         IN  [netloc |-> SubSeq(url, 3, delim - 1), rest |-> Drop(url, delim - 1)]
    ELSE [netloc |-> <<>>, rest |-> url]

CutAt(s, c) ==
    LET i == Find(s, c) IN IF i = 0 THEN s ELSE Take(s, i - 1)

\* str.split(c)
RECURSIVE Split(_, _)
Split(s, c) ==
    LET i == Find(s, c)
    IN  IF i = 0 THEN <<s>> ELSE <<Take(s, i - 1)>> \o Split(Drop(s, i), c)

HexDigits == {"0", "1", "2", "3", "4", "5", "6", "7", "8", "9",
              "a", "b", "c", "d", "e", "f", "A", "B", "C", "D", "E", "F"}
DecDigits == <<"0", "1", "2", "3", "4", "5", "6", "7", "8", "9">>

IsDecDigit(c) == \E i \in DOMAIN DecDigits : DecDigits[i] = c

\* int(s) for a string of decimal digits
RECURSIVE DecValue(_)
DecValue(s) ==
    IF s = <<>> THEN 0
    ELSE DecValue(Take(s, Len(s) - 1)) * 10
           + (CHOOSE i \in DOMAIN DecDigits : DecDigits[i] = s[Len(s)]) - 1

\* ipaddress.IPv4Address._parse_octet succeeds
IsOctet(o) ==
    /\ o # <<>>
    /\ \A i \in DOMAIN o : IsDecDigit(o[i])
    /\ Len(o) <= 3
    /\ (o = <<"0">> \/ o[1] # "0")
    /\ DecValue(o) <= 255

\* ipaddress.IPv4Address(s) succeeds
IsIPv4Split(octets) == Len(octets) = 4 /\ \A i \in DOMAIN octets : IsOctet(octets[i])

IsIPv4(s) == s # <<>> /\ IsIPv4Split(Split(s, "."))

\* ipaddress.IPv6Address._parse_hextet succeeds
IsHextet(h) == h # <<>> /\ Len(h) <= 4 /\ \A i \in DOMAIN h : h[i] \in HexDigits

\* _ip_int_from_string: the positions of the inner empty parts (of "::")
SkipsOf(parts) == {i \in 2..(Len(parts) - 1) : parts[i] = <<>>}

\* _ip_int_from_string with "::" at part k: the number of groups before it and
\* after it; an empty first or last part is allowed only next to the "::"
PartsHi(parts, k) == IF parts[1] = <<>> THEN k - 2 ELSE k - 1
PartsLo(parts, k) == IF parts[Len(parts)] = <<>> THEN Len(parts) - k - 1 ELSE Len(parts) - k

IsIPv6Skipped(parts, k) ==
    /\ parts[1] = <<>> => PartsHi(parts, k) = 0
    /\ parts[Len(parts)] = <<>> => PartsLo(parts, k) = 0
    /\ 8 - (PartsHi(parts, k) + PartsLo(parts, k)) >= 1
    /\ \A i \in 1..PartsHi(parts, k) : IsHextet(parts[i])
    /\ \A i \in (Len(parts) - PartsLo(parts, k) + 1)..Len(parts) : IsHextet(parts[i])

\* _ip_int_from_string on the parts, a trailing IPv4 address already replaced by
\* two groups
IsIPv6Parts(parts) ==
    /\ Len(parts) <= 9
    /\ Cardinality(SkipsOf(parts)) <= 1
    /\ IF SkipsOf(parts) # {}
       THEN IsIPv6Skipped(parts, CHOOSE i \in SkipsOf(parts) : TRUE)
       ELSE Len(parts) = 8 /\ \A i \in DOMAIN parts : IsHextet(parts[i])

\* _ip_int_from_string on ip_str.split(':')
IsIPv6Split(raw) ==
    /\ Len(raw) >= 3
    /\ IF Find(raw[Len(raw)], ".") # 0
       THEN /\ IsIPv4(raw[Len(raw)])
            /\ IsIPv6Parts(Take(raw, Len(raw) - 1) \o <<<<"0">>, <<"0">>>>)
       ELSE IsIPv6Parts(raw)

\* ipaddress.IPv6Address._ip_int_from_string succeeds
IsIPv6Body(s) == s # <<>> /\ IsIPv6Split(Split(s, ":"))

\* ipaddress.IPv6Address(s) succeeds: the address, then an optional %scope
IsIPv6(s) ==
    LET i == Find(s, "%")
    IN  IF i = 0 THEN IsIPv6Body(s)
        ELSE /\ i < Len(s)
             /\ Find(Drop(s, i), "%") = 0
             /\ IsIPv6Body(Take(s, i - 1))

\* re.match(r"\Av[a-fA-F0-9]+\..+\Z", s)
IsIPvFuture(s) ==
    LET d == Find(s, ".")
    IN  /\ s # <<>> /\ s[1] = "v"
        /\ d >= 3
        /\ \A i \in 2..(d - 1) : s[i] \in HexDigits
        /\ d < Len(s)

\* urlsplit raises ValueError("Invalid IPv6 URL") when exactly one of "[" and "]"
\* occurs in the netloc
BadBrackets(netloc) == (Find(netloc, "[") # 0) # (Find(netloc, "]") # 0)

\* netloc.partition('[')[2].partition(']')[0]
BracketedHost(netloc) == CutAt(Drop(netloc, Find(netloc, "[")), "]")

\* _check_bracketed_host(hostname) returns without raising
check_bracketed_host(hostname) ==
    IF hostname # <<>> /\ hostname[1] = "v" THEN IsIPvFuture(hostname)
    ELSE IsIPv6(hostname)

\* urlsplit, with both brackets in the netloc: _check_bracketed_host raises
\* ValueError unless the bracketed host is an IPvFuture or an IPv6 address
BadBracketedHost(netloc) ==
    /\ Find(netloc, "[") # 0
    /\ Find(netloc, "]") # 0
    /\ ~check_bracketed_host(BracketedHost(netloc))

urlparse(url) ==
    LET a == SplitScheme(url)
        b == SplitNetloc(a.rest)
    IN  [scheme |-> a.scheme, netloc |-> b.netloc,
         path |-> CutAt(CutAt(b.rest, "#"), "?"),
         error |-> BadBrackets(b.netloc) \/ BadBracketedHost(b.netloc)]

\* urlunparse((scheme, netloc, path, '', '', '')) for a non-empty netloc
urlunparse(scheme, netloc, path) ==
    LET p == IF path # <<>> /\ path[1] # "/" THEN <<"/">> \o path ELSE path
        u == <<"/", "/">> \o netloc \o p
    IN  IF scheme # <<>> THEN scheme \o <<":">> \o u ELSE u

\* lines 303-305 and 312-313: urlparse(task) gave a scheme and a netloc; a task on
\* which urlparse raises is kept as a plain query
IsUrlShaped(s) ==
    LET p == urlparse(s) IN ~p.error /\ p.scheme # <<>> /\ p.netloc # <<>>

\* what a caller of normalize_url would get if an exception left the function
Raised == <<"raised">>

normalize_url_no_except(url) ==
    LET p == urlparse(url)
    IN  IF p.error THEN Raised
        ELSE IF p.scheme = <<>> \/ p.netloc = <<>> THEN url
        ELSE LET n == urlunparse(p.scheme, p.netloc, p.path)
             IN  IF n[Len(n)] = "/" /\ p.path # <<"/">> THEN Take(n, Len(n) - 1) ELSE n

normalize_url(url) ==
    LET p == urlparse(url)
    IN  IF p.error THEN url
        ELSE IF p.scheme = <<>> \/ p.netloc = <<>> THEN url
        ELSE LET n == urlunparse(p.scheme, p.netloc, p.path)
             IN  IF n[Len(n)] = "/" /\ p.path # <<"/">> THEN Take(n, Len(n) - 1) ELSE n

\* ------------------------------------------------- rate-limited invoker
\* Outcomes of one call of func: a value, ResourceExhausted, another exception.
AttemptOutcomes == {"ok", "quota", "error"}
Jitters == {0 - JitterPercent, 0, JitterPercent}

RetryStart(m, iw, tw) ==
    [max_retries |-> m, initial_wait |-> iw, target_wait_time |-> tw,
     retries |-> 0, calls |-> 0, last |-> "none", waits |-> <<>>, slept |-> <<>>,
     status |-> "running"]

RetryIdle == [RetryStart(0, 0, 0) EXCEPT !.status = "idle"]

\* lines 71-74: the wait before the next attempt, as the fraction num/den
Ramp(retries, m, iw, tw) ==
    IF m <= 1 THEN [num |-> tw, den |-> 1]
    ELSE [num |-> iw * (m - 1) + (tw - iw) * (retries - 1), den |-> m - 1]

\* lines 76-77: min(wait, target) then max(wait, 0)
Clamp(w, tw) ==
    LET a == IF w.num > tw * w.den THEN [num |-> tw * w.den, den |-> w.den] ELSE w
    IN  IF a.num < 0 THEN [num |-> 0, den |-> a.den] ELSE a

WaitTime(retries, m, iw, tw) == Clamp(Ramp(retries, m, iw, tw), tw)

\* line 78: wait_time * (1 + uniform(-0.1, 0.1)), the factor taken in percent
Jittered(w, pct) == [num |-> w.num * (100 + pct), den |-> w.den * 100]

\* the pass with a wait slept after the last allowed attempt as well
RetryAttemptSleepsLast(st, outcome, pct) ==
    IF outcome = "ok" THEN [st EXCEPT !.calls = @ + 1, !.last = outcome, !.status = "returned"]
    ELSE IF outcome = "error"
    THEN [st EXCEPT !.calls = @ + 1, !.last = outcome, !.status = "raised_other"]
    ELSE LET r == st.retries + 1
             w == WaitTime(r, st.max_retries, st.initial_wait, st.target_wait_time)
         IN  [st EXCEPT !.calls = @ + 1, !.last = outcome, !.retries = r,
                        !.waits = Append(@, w), !.slept = Append(@, Jittered(w, pct)),
                        !.status = IF r >= st.max_retries THEN "raised_quota" ELSE @]

\* the pass with a last quota failure that ends the call with a value (None)
RetryAttemptReturnsNone(st, outcome, pct) ==
    IF outcome = "ok" THEN [st EXCEPT !.calls = @ + 1, !.last = outcome, !.status = "returned"]
    ELSE IF outcome = "error" THEN [st EXCEPT !.calls = @ + 1, !.last = outcome, !.status = "raised_other"]
    ELSE LET r == st.retries + 1
             w == WaitTime(r, st.max_retries, st.initial_wait, st.target_wait_time)
         IN  IF r >= st.max_retries
             THEN [st EXCEPT !.calls = @ + 1, !.last = outcome, !.retries = r, !.status = "returned"]
             ELSE [st EXCEPT !.calls = @ + 1, !.last = outcome, !.retries = r,
                             !.waits = Append(@, w), !.slept = Append(@, Jittered(w, pct))]

\* the pass with a wait slept before any other exception is re-raised
RetryAttemptWaitsBeforeRaise(st, outcome, pct) ==
    LET r == st.retries + 1
        w == WaitTime(r, st.max_retries, st.initial_wait, st.target_wait_time)
    IN  IF outcome = "ok" THEN [st EXCEPT !.calls = @ + 1, !.last = outcome, !.status = "returned"]
        ELSE IF outcome = "error"
        THEN [st EXCEPT !.calls = @ + 1, !.last = outcome, !.status = "raised_other",
                        !.waits = Append(@, w), !.slept = Append(@, Jittered(w, pct))]
        ELSE IF r >= st.max_retries
        THEN [st EXCEPT !.calls = @ + 1, !.last = outcome, !.retries = r, !.status = "raised_quota"]
        ELSE [st EXCEPT !.calls = @ + 1, !.last = outcome, !.retries = r,
                        !.waits = Append(@, w), !.slept = Append(@, Jittered(w, pct))]

\* One pass of the while body (lines 62-86) on invoker state st.
RetryAttempt(st, outcome, pct) ==
    IF outcome = "ok" THEN [st EXCEPT !.calls = @ + 1, !.last = outcome, !.status = "returned"]
    ELSE IF outcome = "error" THEN [st EXCEPT !.calls = @ + 1, !.last = outcome, !.status = "raised_other"]
    ELSE LET r == st.retries + 1
             w == WaitTime(r, st.max_retries, st.initial_wait, st.target_wait_time)
         IN  IF r >= st.max_retries
             THEN [st EXCEPT !.calls = @ + 1, !.last = outcome, !.retries = r, !.status = "raised_quota"]
             ELSE [st EXCEPT !.calls = @ + 1, !.last = outcome, !.retries = r,
                             !.waits = Append(@, w), !.slept = Append(@, Jittered(w, pct))]

\* lines 61 and 88-89: the loop test; when it fails the call raises ResourceExhausted
RetryLoopExit(st) == [st EXCEPT !.status = "raised_quota"]

\* The whole call on a given sequence of func outcomes (used by deep_research,
\* which awaits the invoker to completion).
RECURSIVE RetryRun(_, _, _)
RetryRun(st, outs, pct) ==
    IF st.status # "running" THEN st
    ELSE IF st.retries >= st.max_retries THEN RetryLoopExit(st)
    ELSE IF outs = <<>> THEN st
    ELSE RetryRun(RetryAttempt(st, Head(outs), pct), Tail(outs), pct)

\* ------------------------------------------------------- deep_research
VARIABLES
    pc,                   \* position of the control thread in deep_research
    search_iteration,     \* line 232
    history_query,        \* line 236
    history_infos,        \* line 237
    visited_links,        \* line 97
    task,                 \* the local name task (rebound by the for loop at line 302)
    query_tasks,          \* line 277
    contexts,             \* line 292: ids of the contexts of this iteration
    filtered_query_tasks, \* line 301
    agents,               \* line 320: [task, browser_context] per agent
    query_results,        \* line 336: one slot per agent.run, "running" until it ends
    query_result,         \* the local name query_result (line 348)
    files,                \* files written under save_dir
    ctx_closes,           \* per context created in the run: how often close() was called
    browser_closes,       \* calls of browser.close()
    pending,              \* value of the return statement executed inside try/except
    ret,                  \* what the caller of deep_research gets
    caught,               \* the exception the handler at line 451 caught ("none" if none)
    loop_exit,            \* how the while loop was left
    planner_calls, recorder_calls, synth_calls,   \* awaited invoker calls per component
    batches,              \* asyncio.gather calls (dispatch batches)
    agents_built,         \* CustomAgent objects constructed in the run
    search_messages, record_messages, report_messages,   \* lines 180, 181, 432
    sent,                 \* the message list given to the last llm.invoke
    rst,                  \* state of a retry_for_rate_limit_per_minute call under test
    nu                    \* state of a normalize_url call under test

vars == <<pc, search_iteration, history_query, history_infos, visited_links, task,
          query_tasks, contexts, filtered_query_tasks, agents, query_results,
          query_result, files, ctx_closes, browser_closes, pending, ret, caught,
          loop_exit, planner_calls, recorder_calls, synth_calls, batches, agents_built,
          search_messages, record_messages, report_messages, sent, rst, nu>>

\* the strings of the modelled runs
Task0 == <<"t">>                                   \* the caller's task
U == <<"h", ":", "/", "/", "a", "/", "p">>         \* h://a/p
Us == <<"h", ":", "/", "/", "a", "/", "p", "/">>   \* h://a/p/
W == <<"w">>                                       \* a search phrase, not a URL
Unknown == <<"u", "n", "k", "n", "o", "w", "n">>   \* "unknown"
Queries == {U, Us, W}
\* facts of the recorder: with a source url, with url "unknown", without a url key
Facts == {[url |-> Us], [url |-> Unknown], [title |-> W]}

\* elements of a recorder reply that are not facts: a string (the key of a reply
\* that is one object instead of a list of objects, or a string in a list) and a
\* number
StrItem(s) == [str |-> s]
IntItem == [int |-> 5]
Title == <<"t", "i", "t", "l", "e">>
UrlKey == <<"u", "r", "l">>

\* what the for loop of line 383 can find in a reply
Items == Facts \cup {StrItem(Title), StrItem(UrlKey), IntItem}

SeqsUpTo(S, n) == UNION {[1..k -> S] : k \in 0..n}

Last(s) == s[Len(s)]

Repeat(x, n) == [i \in 1..n |-> x]

\* inputs of normalize_url under test: a head (no scheme, no host, scheme only, host
\* only, both, a host urlsplit rejects for a lone bracket, one it rejects for a
\* bracketed name, a bracketed IPv6 address) followed by any tail over "/", "p", "?", "#"
UrlHeads ==
    {<<>>, <<"a">>, <<"h", ":">>, <<"h", ":", "a">>, <<"/", "/", "a">>,
     <<"h", ":", "/", "/">>, <<"h", ":", "/", "/", "a">>,
     <<"h", ":", "/", "/", "[", "a">>, <<"h", ":", "/", "/", "[", "a", "]">>,
     <<"h", ":", "/", "/", "[", ":", ":", "]">>}
UrlTailChars == {"/", "p", "?", "#"}
UrlInputs == {h \o t : h \in UrlHeads, t \in SeqsUpTo(UrlTailChars, MaxTailLen)}

\* a second input that differs from the first in a trailing slash, in the query
\* string or in the fragment
Variations == {"slash", "query", "fragment"}
Vary(url, kind) ==
    CASE kind = "slash" -> url \o <<"/">>
      [] kind = "query" -> url \o <<"?", "p">>
      [] OTHER -> url \o <<"#", "p">>

UrlIdle == [stage |-> "idle", input |-> <<>>, other |-> <<>>, kind |-> "none",
            once |-> <<>>, other_once |-> <<>>, twice |-> <<>>]

\* the invoker as deep_research calls it (defaults of line 44), on k quota failures
\* followed by outcome fin; the jitter changes the sleeps only, not the result
InvokeLlm(k, fin) ==
    RetryRun(RetryStart(DefaultMaxRetries, DefaultInitialWait, DefaultTargetWait),
             Repeat("quota", k) \o <<fin>>, 0).status

\* line 307: norm in visited_links
AlreadyVisitedNever(norm, visited) == FALSE

AlreadyVisited(norm, visited) == norm \in visited

\* line 311: visited_links.add(norm)
ReserveNothing(visited, norm) == visited

Reserve(visited, norm) == visited \cup {norm}

\* the filter loop with the test of line 304 left out: every query is normalized,
\* looked up and reserved
RECURSIVE FilterTasksChecksEveryQuery(_, _)
FilterTasksChecksEveryQuery(qs, acc) ==
    IF qs = <<>> THEN acc
    ELSE LET q == Head(qs)
             norm == normalize_url(q)
         IN  IF AlreadyVisited(norm, acc.visited)
             THEN FilterTasksChecksEveryQuery(Tail(qs), acc)
             ELSE FilterTasksChecksEveryQuery(Tail(qs),
                      [kept |-> Append(acc.kept, q),
                       visited |-> Reserve(acc.visited, norm)])

\* lines 301-314: the filter loop; acc = [kept, visited]
RECURSIVE FilterTasks(_, _)
FilterTasks(qs, acc) ==
    IF qs = <<>> THEN acc
    ELSE LET q == Head(qs)
             norm == normalize_url(q)
         IN  IF IsUrlShaped(q)
             THEN IF AlreadyVisited(norm, acc.visited)
                  THEN FilterTasks(Tail(qs), acc)
                  ELSE FilterTasks(Tail(qs), [kept |-> Append(acc.kept, q),
                                              visited |-> Reserve(acc.visited, norm)])
             ELSE FilterTasks(Tail(qs), [acc EXCEPT !.kept = Append(@, q)])

Unbound == [kind |-> "unbound", q |-> <<>>, it |-> 0]

\* a file that open(path, "w") created.  query and body are what the with block
\* set out to write (for a query file the line "Query: ..." and the result); upto
\* says how much of it is in the file when the with block is left:
\*   "nothing"     0 bytes
\*   "query_line"  exactly what the first write of a query file wrote (line 352)
\*   "part"        another non-empty proper prefix of the content
\*   "all"         the whole content
FileUpTo(name, query, body, upto) ==
    [name |-> name, query |-> query, body |-> body, upto |-> upto]

\* a file after `with open(path, "w") as f: f.write(...)` went through
WrittenFile(name, query, body) == FileUpTo(name, query, body, "all")

\* how far the content of a file can have got when a write, a flush or the
\* close of its with block raises (the file object is buffered: what was written
\* before the exception is flushed when the with block is left)
WriteProgress == {"nothing", "part", "all"}

\* the same for a query file, which is written by two writes (lines 352-356)
QueryWriteProgress == WriteProgress \cup {"query_line"}

\* how writing a file can fail: open raises (no file), or the file is created and
\* an exception leaves the with block with the content written up to some point
OpenRaises == "open_raises"
WriteFailures == {OpenRaises} \cup WriteProgress
QueryWriteFailures == {OpenRaises} \cup QueryWriteProgress

\* how writing a file can end
WriteOutcomes == {"ok"} \cup WriteFailures

\* lines 345-357: the persistence loop over slots i..n; acc = [files, query_result];
\* stop = index of the slot whose file cannot be written (0: none), how = the way
\* it fails (an element of QueryWriteFailures)
RECURSIVE PersistFrom(_, _, _, _, _, _, _)
PersistFrom(i, results, tasks, it, stop, how, acc) ==
    IF i > Len(tasks) THEN acc
    ELSE IF results[i].kind = "none"
    THEN PersistFrom(i + 1, results, tasks, it, stop, how, acc)
    ELSE LET a == [acc EXCEPT !.query_result = results[i]]
             name == <<"query_results", it, i - 1>>
         IN  IF i = stop
             THEN IF how = OpenRaises
                  THEN a
                  ELSE [a EXCEPT !.files = @ \cup {FileUpTo(name, tasks[i], results[i], how)}]
             ELSE PersistFrom(i + 1, results, tasks, it, stop, how,
                     [a EXCEPT !.files = @ \cup {WrittenFile(name, tasks[i], results[i])}])

Init ==
    /\ pc = "makedirs"
    /\ search_iteration = 0
    /\ history_query = <<>>
    /\ history_infos = <<>>
    /\ visited_links = {}
    /\ task = Task0
    /\ query_tasks = <<>>
    /\ contexts = <<>>
    /\ filtered_query_tasks = <<>>
    /\ agents = <<>>
    /\ query_results = <<>>
    /\ query_result = Unbound
    /\ files = {}
    /\ ctx_closes = <<>>
    /\ browser_closes = 0
    /\ pending = "none"
    /\ ret = "none"
    /\ caught = "none"
    /\ loop_exit = "none"
    /\ planner_calls = 0
    /\ recorder_calls = 0
    /\ synth_calls = 0
    /\ batches = 0
    /\ agents_built = 0
    /\ search_messages = <<>>
    /\ record_messages = <<>>
    /\ report_messages = <<>>
    /\ sent = <<>>
    /\ rst = RetryIdle
    /\ nu = UrlIdle

loopVars == <<search_iteration, history_query, history_infos, visited_links, task,
              query_tasks, contexts, filtered_query_tasks, agents, query_results,
              query_result, ctx_closes, batches, agents_built>>
callVars == <<planner_calls, recorder_calls, synth_calls, search_messages,
              record_messages, report_messages, sent>>
endVars == <<browser_closes, ret, loop_exit>>

\* lines 451-453: an exception raised inside the try block (line 238) is caught,
\* logged, and answered with return "", None; the finally clause is next
RaisePastHandler(e) == pc' = "finally" /\ caught' = e /\ pending' = "raised"

Raise(e) == pc' = "finally" /\ caught' = e /\ pending' = "empty"

\* control moves on to p, no exception
Goto(p) == pc' = p /\ UNCHANGED <<caught, pending>>

\* lines 92-95: os.makedirs(save_dir), outside any try
MakeSaveDir ==
    /\ pc = "makedirs"
    /\ \E ok \in BOOLEAN :
        IF ok THEN pc' = "browser" /\ ret' = ret
        ELSE pc' = "done" /\ ret' = "raised"
    /\ UNCHANGED <<loopVars, callVars, files, caught, browser_closes, pending,
                   loop_exit, rst, nu>>

\* lines 96-237: prompts, message lists and Browser(...), outside any try
\* (use_own_cookies keeps its default: cookies_to_inject = [])
NewBrowser ==
    /\ pc = "browser"
    /\ search_messages' = <<[role |-> "system", who |-> "search"]>>
    /\ record_messages' = <<[role |-> "system", who |-> "record"]>>
    /\ \E ok \in BOOLEAN :
        IF ok THEN pc' = "loop" /\ ret' = ret
        ELSE pc' = "done" /\ ret' = "raised"
    /\ UNCHANGED <<loopVars, files, caught, browser_closes, pending, loop_exit,
                   planner_calls, recorder_calls, synth_calls, report_messages, sent, rst, nu>>

\* what llm.invoke gave the planner call: None (line 255), or a message whose
\* content after repair_json / json.loads (lines 266-277) is unparsable, of the
\* wrong shape, or a plan with queries
PlannerReplies(room) ==
    {[kind |-> "none", queries |-> <<>>],
     [kind |-> "unparsable", queries |-> <<>>], [kind |-> "badshape", queries |-> <<>>]}
        \cup {[kind |-> "plan", queries |-> qs] : qs \in SeqsUpTo(Queries, room)}

\* the whole conversation log
SentWholeLog(msgs) == msgs

\* line 254: search_messages[:1] + search_messages[1:][-1:]
SentToPlanner(msgs) ==
    IF Len(msgs) > 1 THEN <<msgs[1], Last(Tail(msgs))>> ELSE <<msgs[1]>>

\* line 366: record_messages[:1] + record_messages[-1:]
SentToRecorder(msgs) == <<msgs[1], Last(msgs)>>

\* a history replaced by the new elements
ExtendReplaces(history, new) == new

\* lines 282 and 391: list.extend
Extend(history, new) == history \o new

\* line 239: while search_iteration < max_search_iterations
LoopTestInclusive(it) == it <= MaxSearchIterations

LoopTest(it) == it < MaxSearchIterations

\* lines 255-280: what the loop does with the planner's reply
PlanOutcomeRaisesOnDecodeError(reply) ==
    CASE reply.kind = "none" -> "break_none"
      [] reply.kind \in {"unparsable", "badshape"} -> "raise"
      [] reply.queries = <<>> -> "break_empty"
      [] OTHER -> "dispatch"

PlanOutcomeBreaksOnBadShape(reply) ==
    CASE reply.kind = "none" -> "break_none"
      [] reply.kind \in {"unparsable", "badshape"} -> "break_unparsable"
      [] reply.queries = <<>> -> "break_empty"
      [] OTHER -> "dispatch"

PlanOutcomeDispatchesEmpty(reply) ==
    CASE reply.kind = "none" -> "break_none"
      [] reply.kind = "unparsable" -> "break_unparsable"
      [] reply.kind = "badshape" -> "raise"
      [] OTHER -> "dispatch"

PlanOutcome(reply) ==
    CASE reply.kind = "none" -> "break_none"
      [] reply.kind = "unparsable" -> "break_unparsable"
      [] reply.kind = "badshape" -> "raise"
      [] reply.queries = <<>> -> "break_empty"
      [] OTHER -> "dispatch"

\* lines 239-284: loop test, planner prompt, planner call, parse, history_query
Plan ==
    /\ pc = "loop"
    /\ IF ~LoopTest(search_iteration)
       THEN /\ Goto("ledger")
            /\ loop_exit' = "cap"
            /\ UNCHANGED <<search_iteration, history_query, query_tasks, callVars>>
       ELSE LET it == search_iteration + 1
                prompt == [role |-> "human", who |-> "search", it |-> it, task |-> task,
                           queries |-> history_query, infos |-> history_infos]
                msgs == Append(search_messages, prompt)
            IN  /\ search_iteration' = it
                /\ planner_calls' = planner_calls + 1
                /\ sent' = SentToPlanner(msgs)
                /\ UNCHANGED <<recorder_calls, synth_calls, record_messages,
                               report_messages>>
                /\ \E k \in 0..DefaultMaxRetries, fin \in {"ok", "error"} :
                    LET status == InvokeLlm(k, fin)
                    IN  IF status # "returned"
                        THEN /\ Raise(status)
                             /\ search_messages' = msgs
                             /\ UNCHANGED <<history_query, query_tasks, loop_exit>>
                        ELSE \E reply \in PlannerReplies(MaxHistoryQuery - Len(history_query)) :
                             /\ search_messages' =
                                    IF reply.kind = "none" THEN msgs
                                    ELSE Append(msgs, [role |-> "ai", who |-> "search",
                                                       it |-> it, content |-> reply])
                             /\ CASE PlanOutcome(reply) = "break_none" ->
                                        /\ Goto("ledger")
                                        /\ loop_exit' = "no_reply"
                                        /\ UNCHANGED <<history_query, query_tasks>>
                                   [] PlanOutcome(reply) = "break_unparsable" ->
                                        /\ Goto("ledger")
                                        /\ loop_exit' = "unparsable"
                                        /\ UNCHANGED <<history_query, query_tasks>>
                                   [] PlanOutcome(reply) = "raise" ->
                                        /\ Raise("planner_shape")
                                        /\ UNCHANGED <<history_query, query_tasks, loop_exit>>
                                   [] PlanOutcome(reply) = "break_empty" ->
                                        /\ Goto("ledger")
                                        /\ loop_exit' = "empty"
                                        /\ query_tasks' = reply.queries
                                        /\ UNCHANGED history_query
                                   [] OTHER ->
                                        /\ Goto("contexts")
                                        /\ history_query' = Extend(history_query, reply.queries)
                                        /\ query_tasks' = reply.queries
                                        /\ UNCHANGED loop_exit
    /\ UNCHANGED <<history_infos, visited_links, task, contexts, filtered_query_tasks,
                   agents, query_results, query_result, files, ctx_closes, batches,
                   agents_built, browser_closes, ret, rst, nu>>

\* lines 292-297: one browser.new_context per element of query_tasks;
\* fail_at = index of the new_context call that raises (0: none)
OpenContexts ==
    /\ pc = "contexts"
    /\ \E fail_at \in 0..Len(query_tasks) :
        LET n == IF fail_at = 0 THEN Len(query_tasks) ELSE fail_at - 1
        IN  /\ contexts' = [i \in 1..n |-> Len(ctx_closes) + i]
            /\ ctx_closes' = ctx_closes \o Repeat(0, n)
            /\ IF fail_at = 0 THEN Goto("filter") ELSE Raise("new_context")
    /\ UNCHANGED <<search_iteration, history_query, history_infos, visited_links, task,
                   query_tasks, filtered_query_tasks, agents, query_results, query_result,
                   files, batches, agents_built, callVars, endVars, rst, nu>>

\* lines 301-332: filter query_tasks against visited_links, reserve the accepted
\* URLs, stop when nothing is left, else construct one agent per accepted query
FilterAndBuild ==
    /\ pc = "filter"
    /\ LET f == FilterTasks(query_tasks, [kept |-> <<>>, visited |-> visited_links])
       IN  /\ visited_links' = f.visited
           /\ filtered_query_tasks' = f.kept
           /\ task' = IF query_tasks = <<>> THEN task ELSE Last(query_tasks)
           /\ IF f.kept = <<>>
              THEN /\ Goto("ledger")
                   /\ loop_exit' = "alldup"
                   /\ UNCHANGED <<agents, query_results, batches, agents_built>>
              ELSE /\ Goto("agents")
                   /\ agents' = [i \in 1..Len(f.kept) |->
                                    [task |-> f.kept[i], browser_context |-> contexts[i]]]
                   /\ agents_built' = agents_built + Len(f.kept)
                   /\ query_results' = [i \in 1..Len(f.kept) |->
                                           [kind |-> "running", q |-> f.kept[i],
                                            it |-> search_iteration]]
                   /\ batches' = batches + 1
                   /\ UNCHANGED loop_exit
    /\ UNCHANGED <<search_iteration, history_query, history_infos, query_tasks, contexts,
                   query_result, files, ctx_closes, callVars, browser_closes, ret, rst, nu>>

\* the await of line 336 ends as soon as one agent.run has returned
BatchJoinedEarly(rs) == \E j \in DOMAIN rs : rs[j].kind # "running"

\* the await of line 336 ends when every agent.run has returned
BatchJoined(rs) == \A j \in DOMAIN rs : rs[j].kind # "running"

\* how an agent.run can end: it raises, or returns None, a history without final
\* result, or a history with a final result
AgentOutcomes == {"raised", "none", "nofinal", "text"}

\* where the tasks of agent.run can take steps: while deep_research awaits
\* gather (line 336) and, for the tasks still running when an exception left
\* that await (gather cancels nothing), while it awaits browser.close() (line
\* 457) and after it has returned; the handler and the return statement between
\* them do not await
AgentsCanStep == pc \in {"agents", "closing", "done"}

\* an agent.run of the batch has raised: gather has its exception
GatherFailed(rs) == \E j \in DOMAIN rs : rs[j].kind = "raised"

\* line 336: asyncio.gather over agent.run; the run of agent i ends.  While gather
\* is awaited, the last result ends the await unless a run has raised; after a
\* raise deep_research stays suspended until the event loop wakes it up
\* (GatherRaises), and the other runs can end meanwhile; after the await was
\* left, the outcome goes nowhere
AgentFinish(i) ==
    /\ AgentsCanStep
    /\ query_results[i].kind = "running"
    /\ \E out \in AgentOutcomes :
        LET rs == [query_results EXCEPT ![i].kind = out]
        IN  /\ query_results' = rs
            /\ Goto(IF pc = "agents" /\ BatchJoined(rs) /\ ~GatherFailed(rs)
                    THEN "close" ELSE pc)
    /\ UNCHANGED <<search_iteration, history_query, history_infos, visited_links, task,
                   query_tasks, contexts, filtered_query_tasks, agents, query_result,
                   files, ctx_closes, batches, agents_built, callVars, endVars, rst, nu>>

\* lines 336 and 451-453: the exception of an agent.run leaves the await of
\* gather and is caught by the handler
GatherRaises ==
    /\ pc = "agents"
    /\ GatherFailed(query_results)
    /\ Raise("agent")
    /\ UNCHANGED <<loopVars, files, callVars, endVars, rst, nu>>

\* lines 340-341: close every context of the iteration;
\* fail_at = index of the close() that raises (0: none)
CloseReachSkipsLast(fail_at, len) == IF fail_at = 0 THEN len - 1 ELSE fail_at

\* how many of the len contexts have had close() called when the for loop ends
CloseReach(fail_at, len) == IF fail_at = 0 THEN len ELSE fail_at

CloseContexts ==
    /\ pc = "close"
    /\ \E fail_at \in 0..Len(contexts) :
        LET n == CloseReach(fail_at, Len(contexts))
        IN  /\ ctx_closes' = [c \in DOMAIN ctx_closes |->
                                IF \E i \in 1..n : contexts[i] = c
                                THEN ctx_closes[c] + 1 ELSE ctx_closes[c]]
            /\ IF fail_at = 0 THEN Goto("persist") ELSE Raise("context_close")
    /\ UNCHANGED <<search_iteration, history_query, history_infos, visited_links, task,
                   query_tasks, contexts, filtered_query_tasks, agents, query_results,
                   query_result, files, batches, agents_built, callVars, endVars, rst, nu>>

\* lines 343-357: os.makedirs of the query_results directory, then one file per
\* result that is not None; dir_ok = the makedirs of line 344 does not raise,
\* stop = slot whose file cannot be written (0: none), how = whether its open
\* raises (no file) or how much of the file is there when its with block raises
PersistResults ==
    /\ pc = "persist"
    /\ \E dir_ok \in BOOLEAN :
        IF ~dir_ok
        THEN Raise("io") /\ UNCHANGED <<files, query_result>>
        ELSE \E stop \in {0} \cup {i \in DOMAIN query_results :
                                      query_results[i].kind # "none"} :
             \E how \in IF stop = 0 THEN {"ok"} ELSE QueryWriteFailures :
            LET r == PersistFrom(1, query_results, filtered_query_tasks, search_iteration,
                                 stop, how,
                                 [files |-> files, query_result |-> query_result])
            IN  /\ files' = r.files
                /\ query_result' = r.query_result
                /\ IF stop = 0 THEN Goto("record") ELSE Raise("io")
    /\ UNCHANGED <<search_iteration, history_query, history_infos, visited_links, task,
                   query_tasks, contexts, filtered_query_tasks, agents, query_results,
                   ctx_closes, batches, agents_built, callVars, endVars, rst, nu>>

\* what llm.invoke gave the recorder call: None (line 368), or a message whose
\* content after repair_json / json.loads (lines 379-389) is unparsable, a value
\* that cannot be iterated (a number, null), or a value the for loop of line 383
\* iterates: infos is what it yields (the elements of a list, the keys of an
\* object, the characters of a string), which is also what line 391 appends
RecorderReplies(room) ==
    {[kind |-> "none", infos |-> <<>>],
     [kind |-> "unparsable", infos |-> <<>>], [kind |-> "not_iterable", infos |-> <<>>]}
        \cup {[kind |-> "list", infos |-> fs] : fs \in SeqsUpTo(Items, room)}

\* t occurs in s as a substring
HasSubstring(s, t) ==
    \E i \in 1..(Len(s) - Len(t) + 1) : SubSeq(s, i, i + Len(t) - 1) = t

\* line 384 raises TypeError on info: `"url" in info` for a number; for a string
\* it is the substring test, and where that holds `info["url"]` raises
UrlTestRaises(info) ==
    \/ "int" \in DOMAIN info
    \/ "str" \in DOMAIN info /\ HasSubstring(info.str, UrlKey)

\* the index of the first element on which line 384 raises (0: none)
FirstRaising(infos) ==
    LET bad == {j \in DOMAIN infos : UrlTestRaises(infos[j])}
    IN  IF bad = {} THEN 0 ELSE CHOOSE j \in bad : \A k \in bad : j <= k

\* the elements the for loop of lines 383-386 went through without raising
LoopedOver(infos) ==
    IF FirstRaising(infos) = 0 THEN infos ELSE SubSeq(infos, 1, FirstRaising(infos) - 1)

\* lines 368-389: what the loop does with the recorder's reply
RecordOutcomeRaisesOnDecodeError(reply) ==
    CASE reply.kind = "none" -> "break_none"
      [] reply.kind \in {"not_iterable", "unparsable"} -> "raise"
      [] FirstRaising(reply.infos) # 0 -> "raise"
      [] OTHER -> "extend"

RecordOutcome(reply) ==
    CASE reply.kind = "none" -> "break_none"
      [] reply.kind = "not_iterable" -> "raise"
      [] reply.kind = "unparsable" -> "empty"
      [] FirstRaising(reply.infos) # 0 -> "raise"
      [] OTHER -> "extend"

\* line 384 on an object: "url" in info and info["url"] != "unknown" (false on a
\* string without "url" in it)
HasKnownUrl(info) == "url" \in DOMAIN info /\ info.url # Unknown

\* the urls of the new facts, as the recorder wrote them
RecordedLinksRaw(infos) ==
    {infos[i].url : i \in {j \in DOMAIN infos : HasKnownUrl(infos[j])}}

\* lines 383-386: the normalized urls of the new facts that have a url other
\* than "unknown"
RecordedLinks(infos) ==
    {normalize_url(infos[i].url) : i \in {j \in DOMAIN infos : HasKnownUrl(infos[j])}}

\* lines 359-391: recorder prompt, recorder call, parse, visited_links, history_infos
Record ==
    /\ pc = "record"
    /\ IF query_result.kind = "unbound"
       THEN /\ Raise("unbound_local")
            /\ UNCHANGED <<history_infos, visited_links, callVars, loop_exit>>
       ELSE LET prompt == [role |-> "human", who |-> "record", it |-> search_iteration,
                           task |-> task, infos |-> history_infos,
                           results |-> query_result]
                msgs == Append(record_messages, prompt)
            IN  /\ recorder_calls' = recorder_calls + 1
                /\ sent' = SentToRecorder(msgs)
                /\ UNCHANGED <<planner_calls, synth_calls, search_messages, report_messages>>
                /\ \E k \in 0..DefaultMaxRetries, fin \in {"ok", "error"} :
                    LET status == InvokeLlm(k, fin)
                    IN  IF status # "returned"
                        THEN /\ Raise(status)
                             /\ record_messages' = msgs
                             /\ UNCHANGED <<history_infos, visited_links, loop_exit>>
                        ELSE \E reply \in RecorderReplies(MaxHistoryInfos - Len(history_infos)) :
                             /\ record_messages' =
                                    IF reply.kind = "none" THEN msgs
                                    ELSE Append(msgs, [role |-> "ai", who |-> "record",
                                                       it |-> search_iteration,
                                                       content |-> reply])
                             /\ CASE RecordOutcome(reply) = "break_none" ->
                                        /\ Goto("ledger")
                                        /\ loop_exit' = "no_reply"
                                        /\ UNCHANGED <<history_infos, visited_links>>
                                   [] RecordOutcome(reply) = "raise" ->
                                        /\ Raise("recorder_shape")
                                        /\ visited_links' =
                                              visited_links
                                                \cup RecordedLinks(LoopedOver(reply.infos))
                                        /\ UNCHANGED <<history_infos, loop_exit>>
                                   [] OTHER ->
                                        LET new_record_infos ==
                                                IF RecordOutcome(reply) = "empty"
                                                THEN <<>> ELSE reply.infos
                                        IN  /\ Goto("loop")
                                            /\ visited_links' =
                                                  visited_links
                                                    \cup RecordedLinks(new_record_infos)
                                            /\ history_infos' =
                                                  Extend(history_infos, new_record_infos)
                                            /\ UNCHANGED loop_exit
    /\ UNCHANGED <<search_iteration, history_query, task, query_tasks, contexts,
                   filtered_query_tasks, agents, query_results, query_result, files,
                   ctx_closes, batches, agents_built, browser_closes, ret, rst, nu>>

\* the step after the loop with the write of record_infos.json left out
WriteLedgerSkipped ==
    /\ pc = "ledger"
    /\ Goto("synth")
    /\ UNCHANGED <<loopVars, files, callVars, endVars, rst, nu>>

\* lines 425-429: record_infos.json; open may raise (no file); json.dump, which
\* writes the ledger in pieces, or the close of the file may raise after open
\* created the file, which then holds what was written up to there
WriteLedger ==
    /\ pc = "ledger"
    /\ \E how \in WriteOutcomes :
        CASE how = "ok" ->
                /\ files' = files \cup {WrittenFile(<<"record_infos.json">>, <<>>,
                                                    history_infos)}
                /\ Goto("synth")
          [] how = OpenRaises -> Raise("io") /\ UNCHANGED files
          [] OTHER ->
                /\ files' = files \cup {FileUpTo(<<"record_infos.json">>, <<>>,
                                                 history_infos, how)}
                /\ Raise("io")
    /\ UNCHANGED <<loopVars, callVars, endVars, rst, nu>>

\* what llm.invoke gave the synthesizer call: None (line 436) or a message
SynthesizerReplies == {"none", "text"}

\* lines 431-437: report prompt, the synthesizer call, and return "", None when
\* the call gave None
Synthesize ==
    /\ pc = "synth"
    /\ LET msgs == <<[role |-> "system", who |-> "writer"],
                     [role |-> "human", who |-> "writer", task |-> task,
                      infos |-> history_infos]>>
       IN  /\ report_messages' = msgs
           /\ sent' = msgs
    /\ synth_calls' = synth_calls + 1
    /\ \E k \in 0..DefaultMaxRetries, fin \in {"ok", "error"} :
        LET status == InvokeLlm(k, fin)
        IN  IF status # "returned" THEN Raise(status)
            ELSE \E reply \in SynthesizerReplies :
                    IF reply = "none"
                    THEN pc' = "finally" /\ pending' = "empty" /\ UNCHANGED caught
                    ELSE Goto("report")
    /\ UNCHANGED <<loopVars, files, planner_calls, recorder_calls, search_messages,
                   record_messages, endVars, rst, nu>>

\* lines 444-449: final_report.md and the return of (report_content, path); open
\* may raise (no file); f.write or the close of the file may raise after open
\* created the file, which then holds what was written up to there
WriteReport ==
    /\ pc = "report"
    /\ \E how \in WriteOutcomes :
        CASE how = "ok" ->
                /\ files' = files \cup {WrittenFile(<<"final_report.md">>, <<>>,
                                                    history_infos)}
                /\ pending' = "report"
                /\ pc' = "finally"
                /\ UNCHANGED caught
          [] how = OpenRaises -> Raise("io") /\ UNCHANGED files
          [] OTHER ->
                /\ files' = files \cup {FileUpTo(<<"final_report.md">>, <<>>,
                                                 history_infos, how)}
                /\ Raise("io")
    /\ UNCHANGED <<loopVars, callVars, browser_closes, ret, loop_exit, rst, nu>>

\* the finally clause without the call of browser.close()
ClosesBrowserNever(browser) == FALSE

\* line 456: if browser
ClosesBrowser(browser) == browser

\* lines 455-457: finally: browser.close() is called and awaited
CloseBrowser ==
    /\ pc = "finally"
    /\ browser_closes' = IF ClosesBrowser(TRUE) THEN browser_closes + 1 ELSE browser_closes
    /\ pc' = "closing"
    /\ UNCHANGED <<loopVars, callVars, files, caught, pending, ret, loop_exit, rst, nu>>

\* lines 457-458: the await of browser.close() ends and the call returns what the
\* return statement inside try/except left pending; an exception of
\* browser.close() replaces it
ReturnToCaller ==
    /\ pc = "closing"
    /\ \E ok \in BOOLEAN : ret' = IF ok THEN pending ELSE "raised"
    /\ pc' = "done"
    /\ UNCHANGED <<loopVars, callVars, files, caught, pending, browser_closes, loop_exit,
                   rst, nu>>

Next ==
    \/ MakeSaveDir
    \/ NewBrowser
    \/ Plan
    \/ OpenContexts
    \/ FilterAndBuild
    \/ \E i \in DOMAIN query_results : AgentFinish(i)
    \/ GatherRaises
    \/ CloseContexts
    \/ PersistResults
    \/ Record
    \/ WriteLedger
    \/ Synthesize
    \/ WriteReport
    \/ CloseBrowser
    \/ ReturnToCaller

Spec == Init /\ [][Next]_vars

\* ------------------------------------------- the invoker on its own
MaxRetriesChoices == 0..MaxRetriesBound
InitialWaits == {0 - 2, DefaultInitialWait, 70}
TargetWaits == {10, DefaultTargetWait}

drVars == <<pc, search_iteration, history_query, history_infos, visited_links, task,
            query_tasks, contexts, filtered_query_tasks, agents, query_results,
            query_result, files, ctx_closes, browser_closes, pending, ret, caught,
            loop_exit, planner_calls, recorder_calls, synth_calls, batches, agents_built,
            search_messages, record_messages, report_messages, sent>>

\* a call retry_for_rate_limit_per_minute(func, max_retries=m, initial_wait=iw,
\* target_wait_time=tw), line 60
RetryCall ==
    /\ rst.status = "idle"
    /\ \E m \in MaxRetriesChoices, iw \in InitialWaits, tw \in TargetWaits :
        rst' = RetryStart(m, iw, tw)
    /\ UNCHANGED <<drVars, nu>>

\* lines 61-86: one attempt
RetryTry ==
    /\ rst.status = "running"
    /\ rst.retries < rst.max_retries
    /\ \E outcome \in AttemptOutcomes, pct \in Jitters :
        rst' = RetryAttempt(rst, outcome, pct)
    /\ UNCHANGED <<drVars, nu>>

\* lines 88-89: the loop test failed
RetryGiveUp ==
    /\ rst.status = "running"
    /\ rst.retries >= rst.max_retries
    /\ rst' = RetryLoopExit(rst)
    /\ UNCHANGED <<drVars, nu>>

RetryNext == RetryCall \/ RetryTry \/ RetryGiveUp

RetrySpec == Init /\ [][RetryNext]_vars

\* ------------------------------------------- normalize_url on its own
allButNu == <<drVars, rst>>

\* the caller picks a string, and a second one to compare it with
UrlPick ==
    /\ nu.stage = "idle"
    /\ \E u \in UrlInputs, kind \in Variations :
        nu' = [UrlIdle EXCEPT !.stage = "picked", !.input = u, !.kind = kind,
                              !.other = Vary(u, kind)]
    /\ UNCHANGED allButNu

\* lines 27-41 applied to both strings
UrlNormalize ==
    /\ nu.stage = "picked"
    /\ nu' = [nu EXCEPT !.stage = "once", !.once = normalize_url(nu.input),
                        !.other_once = normalize_url(nu.other)]
    /\ UNCHANGED allButNu

\* lines 27-41 applied to the result of the first call
UrlRenormalize ==
    /\ nu.stage = "once"
    /\ nu' = [nu EXCEPT !.stage = "twice", !.twice = normalize_url(nu.once)]
    /\ UNCHANGED allButNu

UrlNext == UrlPick \/ UrlNormalize \/ UrlRenormalize

UrlSpec == Init /\ [][UrlNext]_vars

\* ================================================================ claims
PostLoop == {"ledger", "synth", "report", "finally", "closing", "done"}

\* how the while loop ended: an exception caught while loop_exit is still unset was
\* raised inside the loop
LoopExit == IF loop_exit = "none" /\ caught # "none" THEN "error" ELSE loop_exit

\* the file exists and holds its whole content
LedgerWritten == \E f \in files : f.name = <<"record_infos.json">> /\ f.upto = "all"
ReportWritten == \E f \in files : f.name = <<"final_report.md">> /\ f.upto = "all"

\* the file exists, whatever it holds
FileExists(name) == \E f \in files : f.name = name

\* the file exists and holds less than its content
FileCut(name) == \E f \in files : f.name = name /\ f.upto # "all"

\* writing record_infos.json raised (the only step between the end of the loop
\* and the synthesizer call that can)
LedgerWriteFailed == loop_exit # "none" /\ caught = "io" /\ synth_calls = 0

\* the planner's reply of iteration n was a plan with an empty queries list
PlannerSaidEmptyAt(n) ==
    \E i \in DOMAIN search_messages :
        /\ search_messages[i].role = "ai"
        /\ search_messages[i].it = n
        /\ search_messages[i].content.kind = "plan"
        /\ search_messages[i].content.queries = <<>>

\* the planner's latest reply could not be parsed
PlannerUnparsable ==
    /\ search_messages # <<>>
    /\ Last(search_messages).role = "ai"
    /\ Last(search_messages).content.kind = "unparsable"

\* what line 391 appended: the elements of the recorder's replies the loop went
\* through without raising, in the order they were returned
RECURSIVE FactsIn(_)
FactsIn(msgs) ==
    IF msgs = <<>> THEN <<>>
    ELSE IF Head(msgs).role = "ai" /\ Head(msgs).content.kind = "list"
                /\ RecordOutcome(Head(msgs).content) = "extend"
         THEN Head(msgs).content.infos \o FactsIn(Tail(msgs))
         ELSE FactsIn(Tail(msgs))

\* C1 (as claimed; refuted): whichever way the search loop ends (iteration cap, empty
\* queries, all duplicates, unparsable reply or an exception raised inside the loop),
\* the synthesizer call has been made exactly once when the run returns.  Runs in
\* which record_infos.json cannot be written are left out.
C1_SynthesizerOncePerLoopExit ==
    (pc = "done" /\ LoopExit # "none" /\ ~LedgerWriteFailed) => synth_calls = 1

\* C2 (as claimed; refuted): deep_research never raises to its caller, and a run in
\* which some step failed returns ("", None).
C2_NeverRaisesToCaller ==
    pc = "done" => (ret # "raised" /\ (caught # "none" => ret = "empty"))

\* C3 (as claimed; refuted): when the run returns, every context created by
\* browser.new_context has had close() called exactly once.  Runs in which
\* new_context or close() themselves raise are left out.
C3_ContextsClosedOnce ==
    (pc = "done" /\ caught \notin {"new_context", "context_close"})
        => \A c \in DOMAIN ctx_closes : ctx_closes[c] = 1

\* C4: search_iteration never exceeds max_search_iterations, and neither the number
\* of planner calls nor the number of dispatch batches does, whatever the planner
\* returns; the loop is left through the cap only at the cap.
C4_LoopBounded ==
    /\ search_iteration <= MaxSearchIterations
    /\ planner_calls <= MaxSearchIterations
    /\ batches <= MaxSearchIterations
    /\ planner_calls = search_iteration
    /\ (loop_exit = "cap" => search_iteration = MaxSearchIterations)

\* C4 witness: the planner returned queries in every iteration and the cap ended the loop
C4_Witness ==
    /\ loop_exit = "cap"
    /\ batches = MaxSearchIterations
    /\ search_iteration = MaxSearchIterations

\* C5 (as claimed; refuted): when the planner returns an empty queries list on
\* iteration 2, two iterations of dispatch/record have occurred and the synthesizer
\* has run once.
C5_TwoDispatchesOnEmptySecond ==
    (pc = "done" /\ PlannerSaidEmptyAt(2) /\ caught = "none")
        => (batches = 2 /\ recorder_calls = 2 /\ synth_calls = 1)

\* C5 (amended): when the planner returns an empty queries list on iteration 2, the
\* loop stops there: exactly one dispatch batch and one recorder call have occurred
\* (those of iteration 1), the planner was called twice, and the synthesizer has
\* run once.
C5_EmptyOnSecondStopsAfterOneDispatch ==
    /\ PlannerSaidEmptyAt(2) =>
            /\ loop_exit = "empty"
            /\ pc \in PostLoop
            /\ search_iteration = 2
            /\ planner_calls = 2
            /\ batches = 1
            /\ recorder_calls = 1
            /\ synth_calls <= 1
    /\ (pc = "done" /\ PlannerSaidEmptyAt(2) /\ caught = "none")
            => (batches = 1 /\ recorder_calls = 1 /\ synth_calls = 1)

\* C5 witness: such a run has returned its report
C5_Witness ==
    pc = "done" /\ PlannerSaidEmptyAt(2) /\ ret = "report" /\ synth_calls = 1

\* every candidate query is URL-shaped and normalizes to a visited URL
AllCandidatesVisited ==
    /\ query_tasks # <<>>
    /\ \A i \in DOMAIN query_tasks :
        IsUrlShaped(query_tasks[i]) /\ normalize_url(query_tasks[i]) \in visited_links

\* C6: when every candidate query of an iteration is URL-shaped and normalizes to a
\* URL already in visited_links, the filter step builds no agent and starts no batch
\* and leaves the loop; afterwards no planner call, recorder call, agent or batch is
\* added, and a run that then meets no failure has made the synthesizer call once.
C6_AllDuplicatesStop ==
    [][/\ (pc = "filter" /\ AllCandidatesVisited) =>
            /\ pc' = "ledger"
            /\ loop_exit' = "alldup"
            /\ filtered_query_tasks' = <<>>
            /\ agents_built' = agents_built
            /\ batches' = batches
       /\ loop_exit = "alldup" =>
            /\ planner_calls' = planner_calls
            /\ recorder_calls' = recorder_calls
            /\ agents_built' = agents_built
            /\ batches' = batches
            /\ search_iteration' = search_iteration
       /\ (loop_exit' = "alldup" /\ pc' = "done" /\ caught' = "none") => synth_calls' = 1
      ]_vars

\* C6 witness: a run stopped by an all-duplicates iteration and returned
C6_Witness ==
    loop_exit = "alldup" /\ pc = "done" /\ synth_calls = 1 /\ batches = 1

\* the synthesizer call gave None and line 437 returned "", None
SynthesizerGaveNone == synth_calls = 1 /\ caught = "none" /\ pending = "empty"

\* C7: when the planner's reply cannot be parsed, the loop stops without an
\* exception; the synthesizer is given exactly the facts recorded so far; and a run
\* in which no later step fails (the synthesizer call giving None included)
\* returns the report.
C7_UnparsablePlanStopsGracefully ==
    PlannerUnparsable =>
        /\ loop_exit = "unparsable"
        /\ pc \in PostLoop
        /\ (pc \in {"ledger", "synth"} => caught = "none")
        /\ history_infos = FactsIn(record_messages)
        /\ synth_calls <= 1
        /\ (synth_calls = 1 => report_messages[2].infos = FactsIn(record_messages))
        /\ (pc = "done" /\ caught = "none" /\ ret # "raised" /\ ~SynthesizerGaveNone
                => ret = "report" /\ synth_calls = 1 /\ ReportWritten)
        /\ (pc = "done" /\ SynthesizerGaveNone /\ ret # "raised"
                => ret = "empty" /\ ~FileExists(<<"final_report.md">>))

\* C7 witness: facts were recorded, the next planner reply was unparsable, and the
\* report over those facts was returned
C7_Witness ==
    /\ PlannerUnparsable
    /\ pc = "done"
    /\ ret = "report"
    /\ history_infos # <<>>
    /\ report_messages[2].infos = history_infos

\* C8: the filter step accepts at most one of the URL-shaped queries that normalize
\* to the same URL, accepts no URL-shaped query whose normalized form was in
\* visited_links before the step, has every accepted URL in visited_links when the
\* agents exist, and builds the agents from the accepted list only.
C8_VisitedLinkReservation ==
    [][pc = "filter" =>
        LET f == filtered_query_tasks'
        IN  /\ \A i, j \in DOMAIN f :
                (i < j /\ IsUrlShaped(f[i]) /\ IsUrlShaped(f[j]))
                    => normalize_url(f[i]) # normalize_url(f[j])
            /\ \A i \in DOMAIN f :
                IsUrlShaped(f[i]) =>
                    /\ normalize_url(f[i]) \notin visited_links
                    /\ normalize_url(f[i]) \in visited_links'
            /\ pc' = "agents" =>
                /\ Len(agents') = Len(f)
                /\ \A i \in DOMAIN f : agents'[i].task = f[i]
      ]_vars

\* C8 witness: two queries of one batch normalize to the same URL and one is dispatched
C8_Witness ==
    /\ pc = "agents"
    /\ query_tasks = <<U, Us>>
    /\ filtered_query_tasks = <<U>>
    /\ normalize_url(U) = normalize_url(Us)

\* the invoker under test was called with the defaults of line 44
DefaultCall ==
    /\ rst.max_retries = DefaultMaxRetries
    /\ rst.initial_wait = DefaultInitialWait
    /\ rst.target_wait_time = DefaultTargetWait

Secs(w, n) == w.num = n * w.den
Leq(a, b) == a.num * b.den <= b.num * a.den

\* C9 (as claimed; refuted): with max_retries=5, initial_wait=1, target_wait_time=59
\* and a quota failure on every attempt, a wait is computed at each of the attempts
\* 1..5, 1s at attempt 1 and 59s at attempt 5, never decreasing.
C9_RampReachesTarget ==
    (DefaultCall /\ rst.status = "raised_quota") =>
        /\ Len(rst.waits) = DefaultMaxRetries
        /\ Secs(rst.waits[1], DefaultInitialWait)
        /\ Secs(rst.waits[DefaultMaxRetries], DefaultTargetWait)
        /\ \A i \in 1..(Len(rst.waits) - 1) : Leq(rst.waits[i], rst.waits[i + 1])

\* C10 (as claimed; refuted): with max_retries <= 1, a single attempt that fails
\* with the quota error is followed by one wait of target_wait_time.
C10_SingleAttemptWaitsTarget ==
    (rst.max_retries <= 1 /\ rst.calls = 1 /\ rst.status = "raised_quota") =>
        /\ Len(rst.waits) = 1
        /\ Secs(rst.waits[1], rst.target_wait_time)

\* C11: when the operation fails with the quota error on max_retries consecutive
\* attempts (max_retries >= 1), the call has raised ResourceExhausted after exactly
\* max_retries invocations; a call never invokes the operation more than max_retries
\* times, a call that returned a value had retries left, and with max_retries <= 0
\* the operation is not invoked at all and the call raises ResourceExhausted.
C11_QuotaExhaustionRaises ==
    rst.status # "idle" =>
        /\ (rst.max_retries >= 1 /\ rst.retries >= rst.max_retries) =>
                /\ rst.status = "raised_quota"
                /\ rst.retries = rst.max_retries
                /\ rst.calls = rst.max_retries
        /\ (rst.max_retries >= 1 => rst.calls <= rst.max_retries)
        /\ (rst.status = "returned" => rst.retries < rst.max_retries)
        /\ (rst.max_retries <= 0 =>
                rst.calls = 0 /\ rst.status \in {"running", "raised_quota"})

\* C11 witness: three quota failures in a row used up max_retries = 3
C11_Witness ==
    /\ rst.status = "raised_quota"
    /\ rst.max_retries = 3
    /\ rst.calls = 3
    /\ Len(rst.waits) = 2

\* C12: an attempt that fails with an error other than the quota error ends the call
\* with that error in the same pass: no wait is computed or slept, the retry counter
\* is unchanged, and the operation is never invoked afterwards.
C12_OtherErrorPropagatesAtOnce ==
    [][/\ rst'.last = "error" => rst'.status = "raised_other"
       /\ (rst.status = "running" /\ rst'.status = "raised_other") =>
            /\ rst'.last = "error"
            /\ rst'.calls = rst.calls + 1
            /\ rst'.retries = rst.retries
            /\ rst'.waits = rst.waits
            /\ rst'.slept = rst.slept
       /\ rst.status = "raised_other" => rst' = rst
       /\ (rst.status = "running" /\ rst'.status = "running" /\ rst'.calls # rst.calls) =>
            rst'.retries = rst.retries + 1
      ]_vars

\* C12 witness: the error came at the third attempt of five, after two quota waits
C12_Witness ==
    /\ rst.status = "raised_other"
    /\ rst.last = "error"
    /\ rst.max_retries = DefaultMaxRetries
    /\ rst.calls = 3
    /\ rst.retries = 2
    /\ Len(rst.slept) = 2

\* C13 (as claimed; refuted): normalizing the result of normalize_url again gives
\* the same string, for every input.
C13_NormalizeIdempotent ==
    nu.stage = "twice" => nu.twice = nu.once

NormalizeCalled == nu.stage \in {"once", "twice"}

\* a path without its last character when that is "/" and the path is not the root
StripOneSlash(path) ==
    IF path # <<>> /\ Last(path) = "/" /\ path # <<"/">>
    THEN Take(path, Len(path) - 1) ELSE path

\* scheme, "://", host and path of url, the path less one trailing slash
SchemeHostPath(url) ==
    LET p == urlparse(url)
    IN  p.scheme \o <<":", "/", "/">> \o p.netloc \o StripOneSlash(p.path)

\* the result for an input with scheme and host: scheme, host and path only, no
\* query string or fragment, one trailing slash removed unless the path is the root
ReturnsSchemeHostPath ==
    (NormalizeCalled /\ IsUrlShaped(nu.input)) =>
        /\ nu.once = SchemeHostPath(nu.input)
        /\ Find(nu.once, "?") = 0
        /\ Find(nu.once, "#") = 0

\* C14 (as claimed; refuted): for an input with scheme and host normalize_url returns
\* scheme + host + path only, one trailing slash removed unless the path is the root,
\* and two URLs that differ only in the query string, in the fragment, or in one
\* trailing slash on a non-root path normalize to the same string.
C14_SameUpToQueryFragmentSlash ==
    /\ ReturnsSchemeHostPath
    /\ (NormalizeCalled /\ IsUrlShaped(nu.input)) =>
            /\ nu.kind \in {"query", "fragment"} => nu.other_once = nu.once
            /\ (nu.kind = "slash" /\ urlparse(nu.other).path # <<"/">>) =>
                    nu.other_once = nu.once

\* C15: normalize_url returns a string for every input, and returns the input itself
\* when urlparse raises on it or finds no scheme or no host in it.
C15_NormalizeNeverFails ==
    NormalizeCalled =>
        /\ nu.once # Raised
        /\ nu.other_once # Raised
        /\ (nu.stage = "twice" => nu.twice # Raised)
        /\ LET p == urlparse(nu.input)
           IN  (p.error \/ p.scheme = <<>> \/ p.netloc = <<>>) => nu.once = nu.input

\* C15 witness: urlparse rejects the host "[a" and the input comes back unchanged
C15_Witness ==
    /\ nu.stage = "once"
    /\ urlparse(nu.input).error
    /\ nu.input = <<"h", ":", "/", "/", "[", "a", "/", "p", "/">>
    /\ nu.once = nu.input

\* C15 witness for a bracketed host that is not an IP literal: urlparse rejects
\* "[a]" and the input comes back unchanged, trailing slash included
C15_WitnessBracketedName ==
    /\ nu.stage = "once"
    /\ urlparse(nu.input).error
    /\ nu.input = <<"h", ":", "/", "/", "[", "a", "]", "/", "p", "/">>
    /\ nu.once = nu.input

\* C15 witness for a bracketed IPv6 address: the URL is normalized as any other
C15_WitnessBracketedAddress ==
    /\ nu.stage = "once"
    /\ ~urlparse(nu.input).error
    /\ nu.input = <<"h", ":", "/", "/", "[", ":", ":", "]", "/", "p", "/">>
    /\ nu.once = <<"h", ":", "/", "/", "[", ":", ":", "]", "/", "p">>

\* the human messages of a message list
Prompts(msgs) == {msgs[i] : i \in {j \in DOMAIN msgs : msgs[j].role = "human"}}

\* the results written to query_results/<it>-<i>.md
PersistedOf(it) ==
    {f.body : f \in {g \in files : g.name[1] = "query_results" /\ g.name[2] = it
                                       /\ g.upto = "all"}}

\* C16 (as claimed; refuted): an agent that raises or returns no result costs its own
\* slot only: every other result of the batch is persisted before the recorder runs,
\* also when an agent of the batch raised, and a run in which nothing else failed
\* has recorded once per dispatched batch.
C16_AgentFailureIsolated ==
    /\ pc = "record" =>
            \A i \in DOMAIN query_results :
                query_results[i].kind # "none" => query_results[i] \in PersistedOf(search_iteration)
    /\ (pc = "done" /\ caught = "none") => recorder_calls = batches
    /\ (pc = "done" /\ caught = "agent") =>
            /\ recorder_calls = batches
            /\ \A i \in DOMAIN query_results :
                    query_results[i].kind = "text" =>
                        query_results[i] \in PersistedOf(search_iteration)

\* C17 (as claimed; refuted): every planner prompt, recorder prompt and report prompt
\* carries the caller's task as its User Instruction.
C17_TaskIsPromptAnchor ==
    \A m \in Prompts(search_messages) \cup Prompts(record_messages)
                \cup Prompts(report_messages) :
        m.task = Task0

\* C18 (as claimed; refuted): the recorder prompt of an iteration contains the final
\* result of every query of that iteration that returned one, and nothing from an
\* earlier iteration.
C18_RecorderPromptHasBatchTranscripts ==
    \A m \in Prompts(record_messages) :
        /\ m.results.it = m.it
        /\ \A r \in PersistedOf(m.it) : r.kind = "text" => m.results = r

\* the contexts bound to the agents of the batch
BoundContexts == {agents[i].browser_context : i \in DOMAIN agents}

\* C19 (as claimed; refuted): when the agents of an iteration exist, as many contexts
\* were created in the iteration as queries are dispatched, every created context is
\* bound to exactly one agent, and no two agents have the same context.
C19_OneContextPerDispatchedQuery ==
    pc = "agents" =>
        /\ Len(contexts) = Len(filtered_query_tasks)
        /\ \A k \in DOMAIN contexts :
                Cardinality({i \in DOMAIN agents : agents[i].browser_context = contexts[k]}) = 1
        /\ Cardinality(BoundContexts) = Len(agents)

\* the contexts on which close() has not been called
OpenContextIds == {c \in DOMAIN ctx_closes : ctx_closes[c] = 0}

\* C20: when the contexts of an iteration are about to be created, every context
\* created before has had close() called exactly once; at any time all open contexts
\* belong to the latest iteration that created contexts.
C20_ContextsOfOneIterationOpen ==
    /\ pc = "contexts" => \A c \in DOMAIN ctx_closes : ctx_closes[c] = 1
    /\ OpenContextIds \subseteq {contexts[k] : k \in DOMAIN contexts}

\* C20 witness: iteration 2 has created its contexts after an iteration 1 whose agent
\* ended without a final result; the context of iteration 1 is closed, the new one
\* open (query_results still holds the slots of iteration 1)
C20_Witness ==
    /\ pc = "filter"
    /\ search_iteration = 2
    /\ Len(ctx_closes) = 2
    /\ ctx_closes[1] = 1
    /\ ctx_closes[2] = 0
    /\ \E i \in DOMAIN query_results : query_results[i].kind = "nofinal"

\* the try block of line 238 was entered and left, and the finally clause has
\* called browser.close() (awaiting it, or returned)
TryLeft == pc \in {"closing", "done"} /\ pending # "none"

\* an exception was raised inside the while loop
RaisedInLoop == caught # "none" /\ loop_exit = "none"

\* C21: browser.close() is called exactly once in a run that entered the try block:
\* not while the try block runs, once when the finally clause is reached, on every
\* exit path (report returned, synthesizer failure, exception in the loop), and
\* never again.  An exception caught by the handler makes the empty result the
\* pending one, and the caller gets it unless browser.close() itself raises; an
\* exception raised inside the loop also means that the synthesizer is not called
\* and that neither record_infos.json nor final_report.md is created.
C21_BrowserClosedOnce ==
    /\ browser_closes <= 1
    /\ pc \notin {"closing", "done"} => browser_closes = 0
    /\ TryLeft => browser_closes = 1
    /\ (pc = "done" /\ pending = "none") => browser_closes = 0
    /\ caught # "none" =>
            /\ pc \in {"finally", "closing", "done"}
            /\ pending = "empty"
            /\ ret \in {"none", "empty", "raised"}
            /\ (pc = "done" /\ ret # "raised") => ret = "empty"
    /\ RaisedInLoop =>
            /\ synth_calls = 0
            /\ ~FileExists(<<"record_infos.json">>)
            /\ ~FileExists(<<"final_report.md">>)

\* C21 witness: an agent raised inside the loop; the browser was closed once and the
\* run returned the empty result
C21_Witness ==
    /\ pc = "done"
    /\ caught = "agent"
    /\ browser_closes = 1
    /\ ret = "empty"

\* C21 witness for the await of line 457: browser.close() has been called and the
\* call has not returned yet, while another agent of the batch is still running
C21_WitnessClosing ==
    /\ pc = "closing"
    /\ caught = "agent"
    /\ browser_closes = 1
    /\ ret = "none"
    /\ \E i \in DOMAIN query_results : query_results[i].kind = "running"

\* C21 witness for the report path: the report was returned after one close
C21_WitnessReport ==
    /\ pc = "done"
    /\ caught = "none"
    /\ browser_closes = 1
    /\ ret = "report"

\* C22: a recording step whose reply cannot be parsed leaves history_infos and
\* visited_links as they were, raises nothing and returns to the loop test; from the
\* loop test below the iteration cap the next step is the next planner call.
C22_UnparsableRecordKeepsLoop ==
    [][/\ (pc = "record" /\ record_messages' # record_messages
            /\ Last(record_messages').role = "ai"
            /\ Last(record_messages').content.kind = "unparsable") =>
                /\ history_infos' = history_infos
                /\ visited_links' = visited_links
                /\ pc' = "loop"
                /\ caught' = "none"
                /\ loop_exit' = "none"
       /\ (pc = "loop" /\ search_iteration < MaxSearchIterations /\ pc' # "loop") =>
                /\ planner_calls' = planner_calls + 1
                /\ search_iteration' = search_iteration + 1
      ]_vars

\* C22 witness: the recorder's reply of iteration 1 was unparsable and iteration 2
\* has planned and dispatched its queries
C22_Witness ==
    /\ pc = "agents"
    /\ search_iteration = 2
    /\ Len(record_messages) = 3
    /\ record_messages[3].content.kind = "unparsable"
    /\ history_infos = <<>>

\* the normalized form of every url of infos that is not "unknown"
NormalizedUrlsOf(infos) ==
    {normalize_url(infos[i].url) :
        i \in {j \in DOMAIN infos : "url" \in DOMAIN infos[j] /\ infos[j].url # Unknown}}

\* C23: a successful recording step adds to visited_links exactly the normalized urls
\* of the new facts whose url is not "unknown"; the normalized url of every recorded
\* fact stays in visited_links; and no filter step accepts a URL-shaped query whose
\* normalized form is the normalized url of a recorded fact.  A step that records
\* only facts with url "unknown" or without a url key leaves visited_links alone.
C23_RecordedUrlsAreVisited ==
    [][/\ (pc = "record" /\ pc' = "loop") =>
            LET new == SubSeq(history_infos', Len(history_infos) + 1, Len(history_infos'))
            IN  visited_links' = visited_links \cup NormalizedUrlsOf(new)
       /\ (pc = "record" /\ pc' = "loop"
             /\ \A i \in (Len(history_infos) + 1)..Len(history_infos') :
                    ~HasKnownUrl(history_infos'[i])) => visited_links' = visited_links
       /\ NormalizedUrlsOf(history_infos') \subseteq visited_links'
       /\ pc = "filter" =>
            \A i \in DOMAIN filtered_query_tasks' :
                IsUrlShaped(filtered_query_tasks'[i]) =>
                    normalize_url(filtered_query_tasks'[i]) \notin NormalizedUrlsOf(history_infos)
      ]_vars

\* C23 witness: iteration 1 searched "w" and recorded a fact from h://a/p/ and one
\* without source; iteration 2 asked for h://a/p, which was not dispatched
C23_Witness ==
    /\ loop_exit = "alldup"
    /\ history_query = <<W, U>>
    /\ history_infos = <<[url |-> Us], [url |-> Unknown]>>
    /\ visited_links = {U}
    /\ batches = 1

\* C23 witness for facts that add nothing: iteration 1 recorded a fact with url
\* "unknown" and one without a url key, and visited_links is still empty
C23_WitnessNoUrl ==
    /\ pc = "loop"
    /\ search_iteration = 1
    /\ history_infos = <<[url |-> Unknown], [title |-> W]>>
    /\ visited_links = {}

IsPrefix(a, b) == Len(a) <= Len(b) /\ SubSeq(b, 1, Len(a)) = a

\* C24: every step keeps all elements of visited_links, keeps history_query and
\* history_infos as prefixes of their new values, and leaves search_iteration alone
\* or adds 1 to it; search_iteration is 0 before the first pass and the planner
\* prompts are those of the iterations 1, 2, ... in order, one per increment.
C24_RunStateMonotonic ==
    [][/\ visited_links \subseteq visited_links'
       /\ IsPrefix(history_query, history_query')
       /\ IsPrefix(history_infos, history_infos')
       /\ search_iteration' \in {search_iteration, search_iteration + 1}
       /\ Cardinality(Prompts(search_messages')) = search_iteration'
       /\ \A i \in DOMAIN search_messages' :
            search_messages'[i].role = "human" => search_messages'[i].it = i \div 2
      ]_vars

\* C24 witness: two iterations, each with one query and one recorded fact
C24_Witness ==
    /\ pc = "loop"
    /\ search_iteration = 2
    /\ Len(history_query) = 2
    /\ Len(history_infos) = 2
    /\ history_infos[1] # history_infos[2]
    /\ visited_links # {}
    /\ Len(record_messages) = 5

\* an agent of the current batch has not returned
BatchRunning == \E i \in DOMAIN query_results : query_results[i].kind = "running"

\* the await of gather was left by the exception of an agent
GatherAbandoned == caught = "agent"

\* nothing of the iteration is closed, persisted or recorded while an agent runs,
\* nor after the exception of an agent has ended the await; the dispatcher is
\* past the await with an agent running only in that case
NothingBeforeJoin ==
    /\ (pc = "agents" \/ BatchRunning \/ GatherAbandoned) =>
            /\ \A k \in DOMAIN contexts : ctx_closes[contexts[k]] = 0
            /\ \A f \in files :
                    f.name[1] = "query_results" => f.name[2] # search_iteration
            /\ recorder_calls = batches - 1
            /\ \A m \in Prompts(record_messages) : m.it < search_iteration
    /\ BatchRunning => (pc = "agents" \/ GatherAbandoned)
    /\ pc \in {"close", "persist", "record"} =>
            \A i \in DOMAIN query_results :
                query_results[i].kind \in {"none", "nofinal", "text"}

\* slot i, agent i and file i - 1 of the iteration belong to query i
SlotsFollowQueries ==
    (pc \in {"agents", "close", "persist", "record"} \/ BatchRunning \/ GatherAbandoned) =>
        /\ Len(query_results) = Len(filtered_query_tasks)
        /\ Len(agents) = Len(filtered_query_tasks)
        /\ \A i \in DOMAIN filtered_query_tasks :
                /\ query_results[i].q = filtered_query_tasks[i]
                /\ agents[i].task = filtered_query_tasks[i]
        /\ \A f \in files :
                (f.name[1] = "query_results" /\ f.name[2] = search_iteration) =>
                    /\ f.query = filtered_query_tasks[f.name[3] + 1]
                    /\ f.body = query_results[f.name[3] + 1]

\* C25: while an agent of the batch has not returned, no context of the iteration
\* is closed, no result of the iteration is persisted and the recorder has not been
\* called for it; the contexts are closed, the results persisted and the recorder
\* called only after every agent has returned a result.  When the exception of an
\* agent ends the await instead, the other agents run on while the browser is
\* closed and after the call has returned, and nothing of the iteration is closed,
\* persisted or recorded at all.  Result slot i, agent i and the file of index
\* i - 1 belong to query i of filtered_query_tasks whatever the order in which the
\* agents return; and no step taken while an agent is running, the end of an
\* agent included, changes visited_links, history_query or history_infos.
C25_FanOutFanIn ==
    /\ [](NothingBeforeJoin /\ SlotsFollowQueries)
    /\ [][(pc = "agents" \/ BatchRunning \/ GatherAbandoned) =>
            /\ visited_links' = visited_links
            /\ history_query' = history_query
            /\ history_infos' = history_infos
            /\ files' = files
            /\ ctx_closes' = ctx_closes
            /\ recorder_calls' = recorder_calls
         ]_vars

\* C25 witness: the second agent of a batch of two has returned before the first
C25_Witness ==
    /\ pc = "agents"
    /\ filtered_query_tasks = <<U, W>>
    /\ query_results[1].kind = "running"
    /\ query_results[2].kind = "text"
    /\ query_results[2].q = W

\* C25 witness for an abandoned await: the first agent of a batch of two raised,
\* the call has returned, and the second agent returned its result afterwards;
\* nothing of the iteration was persisted
C25_WitnessAbandoned ==
    /\ pc = "done"
    /\ caught = "agent"
    /\ filtered_query_tasks = <<U, W>>
    /\ query_results[1].kind = "raised"
    /\ query_results[2].kind = "text"
    /\ files = {}

\* C25 witness for the passes between the exception of an agent and the handler:
\* both agents of a batch have raised before the handler has run
C25_WitnessBothRaised ==
    /\ pc = "finally"
    /\ caught = "agent"
    /\ browser_closes = 0
    /\ Len(query_results) = 2
    /\ query_results[1].kind = "raised"
    /\ query_results[2].kind = "raised"

\* C25 witness for an agent still running when the call has returned
C25_WitnessRunningAtReturn ==
    /\ pc = "done"
    /\ ret = "empty"
    /\ Len(query_results) = 2
    /\ query_results[1].kind = "raised"
    /\ query_results[2].kind = "running"

\* a conversation log: the system prompt, then for the iterations 1, 2, ... the user
\* turn followed by the model's response (the last response may be missing)
WellFormedLog(msgs, who) ==
    msgs # <<>> =>
        /\ msgs[1] = [role |-> "system", who |-> who]
        /\ \A i \in 2..Len(msgs) :
                /\ msgs[i].who = who
                /\ msgs[i].it = i \div 2
                /\ msgs[i].role = IF i % 2 = 0 THEN "human" ELSE "ai"

\* C26: the message list of every planner and recorder invocation has two elements,
\* the component's system prompt and the user turn appended in the current
\* iteration; the logs keep the system prompt and then every user turn and every
\* response in order, one user turn per invocation.
C26_SendsSystemAndLatestTurn ==
    /\ WellFormedLog(search_messages, "search")
    /\ WellFormedLog(record_messages, "record")
    /\ Cardinality(Prompts(search_messages)) = planner_calls
    /\ Cardinality(Prompts(record_messages)) = recorder_calls
    /\ (sent # <<>> /\ synth_calls = 0) =>
            /\ Len(sent) = 2
            /\ sent[1].role = "system"
            /\ sent[2].role = "human"
            /\ sent[1].who = sent[2].who
            /\ sent[2].who \in {"search", "record"}
            /\ sent[2].it = search_iteration
            /\ LET log == IF sent[2].who = "search" THEN search_messages ELSE record_messages
               IN  /\ sent[1] = log[1]
                   /\ sent[2] = log[2 * search_iteration]

\* C26 witness: the second planner call got the system prompt and the user turn of
\* iteration 2, while the log holds both turns of iteration 1 as well
C26_Witness ==
    /\ planner_calls = 2
    /\ Len(search_messages) = 5
    /\ sent = <<search_messages[1], search_messages[4]>>
    /\ search_messages[3].role = "ai"

\* the synthesizer call ended with an exception of the invoker
SynthesizerFailed == synth_calls = 1 /\ caught \in {"raised_quota", "raised_other"}

\* C27: when the synthesizer call fails (ResourceExhausted after the retries, or
\* another error), the handler returns the empty result, final_report.md is not
\* written, and the caller gets the empty result unless browser.close() raises.
C27_SynthesizerFailureGivesEmpty ==
    SynthesizerFailed =>
        /\ pc \in {"finally", "closing", "done"}
        /\ pending = "empty"
        /\ ~FileExists(<<"final_report.md">>)
        /\ LedgerWritten
        /\ (pc = "done" /\ ret # "raised") => ret = "empty"

\* C27 witness: the synthesizer call ran out of retries and the run returned empty
C27_Witness ==
    /\ pc = "done"
    /\ synth_calls = 1
    /\ caught = "raised_quota"
    /\ ret = "empty"
    /\ history_infos # <<>>

\* C28 (as claimed; refuted): after the persistence step of an iteration there is
\* exactly one file query_results/<iteration>-<i> for every position i of
\* filtered_query_tasks, holding the query and its transcript or the no-result
\* marker, also for an agent whose result is absent.
C28_OneFilePerDispatchedQuery ==
    pc = "record" =>
        \A i \in DOMAIN filtered_query_tasks :
            LET fs == {f \in files : f.name = <<"query_results", search_iteration, i - 1>>}
            IN  /\ Cardinality(fs) = 1
                /\ \A f \in fs : f.query = filtered_query_tasks[i]
                                   /\ f.body.kind \in {"text", "nofinal"}

\* the call has ended
RetryEnded == rst.status \in {"returned", "raised_quota", "raised_other"}

\* the counts of a call with max_retries >= 1
RetryWithinBudget ==
    (rst.status # "idle" /\ rst.max_retries >= 1) =>
        /\ rst.calls <= rst.max_retries
        /\ Len(rst.slept) <= rst.max_retries - 1
        /\ Len(rst.slept) = Len(rst.waits)
        /\ RetryEnded => Len(rst.slept) = rst.calls - 1
        /\ rst.status = "running" => Len(rst.slept) = rst.calls
        /\ rst.status = "returned" => rst.last = "ok"

\* C29: with max_retries >= 1 the operation is invoked at most max_retries times and
\* the call sleeps at most max_retries - 1 times, once after each failed attempt
\* but the last one; an attempt that succeeds ends the call with its value; after
\* the call has ended there is no further invocation or sleep.
C29_CallsAndSleepsBounded ==
    /\ []RetryWithinBudget
    /\ [][/\ RetryEnded => rst' = rst
          /\ rst'.last = "ok" => (rst'.status = "returned" /\ rst'.slept = rst.slept)
         ]_vars

\* C29 witness: the third of three allowed attempts succeeded after two sleeps
C29_Witness ==
    /\ rst.status = "returned"
    /\ rst.max_retries = 3
    /\ rst.calls = 3
    /\ Len(rst.slept) = 2

\* the planner's latest reply parsed as JSON but has no "plan" or no "queries"
PlannerBadShape ==
    /\ search_messages # <<>>
    /\ Last(search_messages).role = "ai"
    /\ Last(search_messages).content.kind = "badshape"

\* C30: a planner reply that parses but lacks "plan" or "queries" ends the run
\* through the exception handler: no recorder call follows it, the synthesizer is
\* not called, record_infos.json and final_report.md are not written, and the
\* handler returns the empty result (which the caller gets unless browser.close()
\* raises), whatever facts were recorded before.
C30_BadShapePlanAborts ==
    PlannerBadShape =>
        /\ caught = "planner_shape"
        /\ loop_exit = "none"
        /\ pc \in {"finally", "closing", "done"}
        /\ pending = "empty"
        /\ recorder_calls = search_iteration - 1
        /\ batches = search_iteration - 1
        /\ synth_calls = 0
        /\ ~FileExists(<<"record_infos.json">>)
        /\ ~FileExists(<<"final_report.md">>)
        /\ (pc = "done" /\ ret # "raised") => ret = "empty"

\* C30 witness: iteration 1 recorded a fact, the planner's second reply had the
\* wrong shape, and the run returned the empty result
C30_Witness ==
    /\ PlannerBadShape
    /\ pc = "done"
    /\ ret = "empty"
    /\ search_iteration = 2
    /\ history_infos # <<>>

NotUrlShaped(q) == ~IsUrlShaped(q)

\* the normalized forms of the URL-shaped queries of qs
NormalizedUrlQueries(qs) ==
    {normalize_url(qs[i]) : i \in {j \in DOMAIN qs : IsUrlShaped(qs[j])}}

\* C31: the filter step keeps every query that is not URL-shaped, as often as and
\* in the order in which the planner proposed it, whatever visited_links and
\* history_query hold; an agent is built for each of them; and the step adds to
\* visited_links nothing but normalized URL-shaped queries, so that a batch
\* without URL-shaped queries leaves visited_links as it was.
C31_NonUrlQueriesAlwaysDispatched ==
    [][pc = "filter" =>
          /\ SelectSeq(filtered_query_tasks', NotUrlShaped)
                = SelectSeq(query_tasks, NotUrlShaped)
          /\ visited_links \subseteq visited_links'
          /\ (visited_links' \ visited_links) \subseteq NormalizedUrlQueries(query_tasks)
          /\ (\A i \in DOMAIN query_tasks : NotUrlShaped(query_tasks[i])) =>
                /\ visited_links' = visited_links
                /\ filtered_query_tasks' = query_tasks
          /\ (\E i \in DOMAIN query_tasks : NotUrlShaped(query_tasks[i])) =>
                /\ pc' = "agents"
                /\ Len(agents') = Len(filtered_query_tasks')
                /\ \A i \in DOMAIN agents' : agents'[i].task = filtered_query_tasks'[i]
      ]_vars

\* C31 witness: the search phrase issued in iteration 1 is proposed again in
\* iteration 2, after a URL was reserved, and is dispatched again
C31_Witness ==
    /\ pc = "agents"
    /\ search_iteration = 2
    /\ history_query = <<W, W>>
    /\ filtered_query_tasks = <<W>>
    /\ agents_built = 2
    /\ visited_links # {}

\* C31 witness for a repeat within one batch: both copies are dispatched
C31_WitnessSameBatch ==
    /\ pc = "agents"
    /\ query_tasks = <<W, W>>
    /\ filtered_query_tasks = <<W, W>>
    /\ Len(agents) = 2

\* what the files named record_infos.json were to hold
LedgerBodies ==
    {f.body : f \in {g \in files : g.name = <<"record_infos.json">>}}

\* C32: record_infos.json is written, with its whole content, before the
\* synthesizer call is made: it is there when the call is about to be made, when
\* it has been made, when it failed and when a report path is returned, and in a
\* run that has left the loop and met no exception it is there from the step after
\* the loop.  Its content is history_infos, the same sequence the synthesizer's
\* prompt carries, and that is the concatenation, in order, of the facts of all
\* recorder replies of the run.  When writing the file raises, what is on disk is
\* none or a prefix of that content, and the synthesizer call is not made.
C32_LedgerBeforeSynthesizer ==
    /\ (loop_exit # "none" /\ pc \in PostLoop \ {"ledger"} /\ caught = "none")
            => LedgerWritten
    /\ (pc = "synth" => synth_calls = 0 /\ LedgerWritten)
    /\ (synth_calls > 0 => LedgerWritten)
    /\ (SynthesizerFailed => LedgerWritten)
    /\ ((pending = "report" \/ ret = "report") => LedgerWritten)
    /\ (FileExists(<<"record_infos.json">>) =>
            /\ loop_exit # "none"
            /\ pc \in PostLoop \ {"ledger"}
            /\ LedgerBodies = {history_infos}
            /\ history_infos = FactsIn(record_messages))
    /\ (synth_calls > 0 =>
            /\ Len(report_messages) = 2
            /\ LedgerBodies = {report_messages[2].infos}
            /\ sent = report_messages)
    /\ ((loop_exit # "none" /\ pc \in PostLoop \ {"ledger"} /\ ~LedgerWritten) =>
            /\ caught = "io"
            /\ pending = "empty"
            /\ synth_calls = 0
            /\ ~FileExists(<<"final_report.md">>))

\* C32 witness: two iterations recorded one fact each, the ledger holding both was
\* written, and the synthesizer call then failed
C32_Witness ==
    /\ pc = "done"
    /\ SynthesizerFailed
    /\ LedgerWritten
    /\ recorder_calls = 2
    /\ Len(history_infos) = 2
    /\ \E i, j \in DOMAIN record_messages :
          /\ i < j
          /\ record_messages[i].role = "ai" /\ record_messages[i].content.kind = "list"
          /\ record_messages[j].role = "ai" /\ record_messages[j].content.kind = "list"
          /\ Len(record_messages[i].content.infos) = 1
          /\ Len(record_messages[j].content.infos) = 1

\* C32 witness for the successful run: a report path is returned and the ledger
\* with the recorded facts exists
C32_WitnessReport ==
    /\ pc = "done"
    /\ ret = "report"
    /\ LedgerWritten
    /\ ReportWritten
    /\ history_infos # <<>>

\* C32 witness for a failing write: json.dump raised part way, the file holds a
\* prefix of the ledger, and the synthesizer was not called
C32_WitnessCut ==
    /\ pc = "done"
    /\ FileCut(<<"record_infos.json">>)
    /\ \E f \in files : f.name = <<"record_infos.json">> /\ f.upto = "part"
    /\ history_infos # <<>>
    /\ synth_calls = 0
    /\ ret = "empty"

====
